---- MODULE Spec2Model ----
(***************************************************************************)
(* A model of muzz (src/src/muzz.c): one run of main() from the argument   *)
(* count check, through the getopt() loop, to the formula and its output.  *)
(*                                                                         *)
(* The argument vector is the input of the run.  It is revealed token by   *)
(* token as getopt() reads it: argc is fixed by Init, and each step that   *)
(* reads argv[optind] draws the token from a small set.  A token is a      *)
(* sequence of characters, so getopt() and atof() work on its characters.  *)
(* getopt() is the GNU one (argv is permuted: the options are found        *)
(* wherever they stand and the non-options end up, in order, at            *)
(* argv[optind..]), with opterr left at 1 as the program leaves it.        *)
(*                                                                         *)
(* A double is modelled by an exact rational [n, d]; d = 0 encodes the     *)
(* non-finite values (n > 0: inf, n < 0: -inf, n = 0: nan).  The sign of a *)
(* zero is not kept, and sqrt() is exact on squares and rounded to         *)
(* 1/SqrtDen elsewhere.                                                    *)
(***************************************************************************)
EXTENDS Integers, Sequences, FiniteSets, TLC

(***************************************************************************)
(* Bounds of the model                                                     *)
(***************************************************************************)
\* the most arguments after the program name (argc - 1)
MaxArgs == 4

\* the most positional values of a run that starts where the option loop ended
MaxPositionals == 4

\* sqrt() of a value that is no square of a rational is kept to 1/SqrtDen
SqrtDen == 10

\* the positive doubles given to the formulas alone are the n/d with n, d in 1..MaxValue
MaxValue == 3

(***************************************************************************)
(* Arithmetic on doubles                                                   *)
(***************************************************************************)
Abs(a) == IF a < 0 THEN -a ELSE a

Sgn(a) == IF a < 0 THEN -1 ELSE IF a > 0 THEN 1 ELSE 0

RECURSIVE GCD(_, _)
GCD(a, b) == IF b = 0 THEN a ELSE GCD(b, a % b)

\* the double n/d in lowest terms, d > 0; or inf, -inf, nan when d = 0
Num(n, d) ==
    IF d = 0 THEN [n |-> Sgn(n), d |-> 0]
    ELSE LET g == GCD(Abs(n), Abs(d))
             s == Sgn(d)
         IN  [n |-> (s * n) \div g, d |-> (s * d) \div g]

Int2D(i) == [n |-> i, d |-> 1]

NaN == [n |-> 0, d |-> 0]

IsFinite(x) == x.d # 0

\* x > 0, for a double that is not nan
IsPositive(x) == x.n > 0

\* the product, reduced crosswise before it is formed
Mul(x, y) ==
    LET g1 == GCD(Abs(x.n), Abs(y.d))
        g2 == GCD(Abs(y.n), Abs(x.d))
        h1 == IF g1 = 0 THEN 1 ELSE g1
        h2 == IF g2 = 0 THEN 1 ELSE g2
    IN  Num((x.n \div h1) * (y.n \div h2), (x.d \div h2) * (y.d \div h1))

Inv(y) ==
    IF y.n = 0 THEN (IF y.d = 0 THEN NaN ELSE [n |-> 1, d |-> 0])
    ELSE [n |-> Sgn(y.n) * y.d, d |-> Abs(y.n)]

Div(x, y) == Mul(x, Inv(y))

\* the largest r in lo..hi with r * r <= a
RECURSIVE ISqrtIn(_, _, _)
ISqrtIn(a, lo, hi) ==
    IF lo >= hi THEN lo
    ELSE LET mid == (lo + hi + 1) \div 2
         IN  IF mid * mid <= a THEN ISqrtIn(a, mid, hi) ELSE ISqrtIn(a, lo, mid - 1)

ISqrt(a) == ISqrtIn(a, 0, 46340)

IsSquare(a) == ISqrt(a) * ISqrt(a) = a


\* sqrt() of math.h: nan below zero, exact on squares, else to the nearest 1/SqrtDen
Sqrt(x) ==
    IF x.d = 0 THEN (IF x.n > 0 THEN x ELSE NaN)
    ELSE IF x.n < 0 THEN NaN
    ELSE IF IsSquare(x.n) /\ IsSquare(x.d) THEN Num(ISqrt(x.n), ISqrt(x.d))
    ELSE LET whole == x.n \div x.d
             rest  == ((x.n % x.d) * SqrtDen * SqrtDen) \div x.d
             a     == whole * SqrtDen * SqrtDen + rest
             r     == ISqrt(a)
             q     == IF a - r * r > r THEN r + 1 ELSE r
         IN  Num(q, SqrtDen)

\* round() of math.h: to the nearest integer, halves away from zero
Round(x) ==
    IF x.d = 0 THEN x
    ELSE LET a == Abs(x.n)
             q == a \div x.d
             r == a % x.d
             m == IF 2 * r >= x.d THEN q + 1 ELSE q
         IN  Int2D(Sgn(x.n) * m)

RECURSIVE Pow10(_)
Pow10(p) == IF p = 0 THEN 1 ELSE 10 * Pow10(p - 1)

\* the text of a "%.<prec>lf" conversion: sign, integer digits, prec fraction
\* digits (the value rounded to prec decimals, a tie to the even digit)
Fmt(x, prec) ==
    IF x.d = 0
    THEN [neg |-> x.n < 0, ip |-> 0, fp |-> 0, prec |-> prec,
          word |-> IF x.n = 0 THEN "nan" ELSE "inf"]
    ELSE LET a == Abs(x.n) * Pow10(prec)
             q == a \div x.d
             r == a % x.d
             m == IF 2 * r > x.d \/ (2 * r = x.d /\ q % 2 = 1) THEN q + 1 ELSE q
         IN  [neg |-> x.n < 0, ip |-> m \div Pow10(prec), fp |-> m % Pow10(prec),
              prec |-> prec, word |-> ""]

(***************************************************************************)
(* atof(): optional sign, digits, optional point and digits; the text that *)
(* follows is ignored and a text with no digits gives 0.0                  *)
(***************************************************************************)
Digits == <<"0", "1", "2", "3", "4", "5", "6", "7", "8", "9">>

IsDigit(c) == \E i \in 1..Len(Digits) : Digits[i] = c

DigitVal(c) == (CHOOSE i \in 1..Len(Digits) : Digits[i] = c) - 1

\* the digits of s from position i on: [v: their value, k: how many, i: the next position]
RECURSIVE ScanDigits(_, _, _, _)
ScanDigits(s, i, v, k) ==
    IF i <= Len(s) /\ IsDigit(s[i])
    THEN ScanDigits(s, i + 1, 10 * v + DigitVal(s[i]), k + 1)
    ELSE [v |-> v, k |-> k, i |-> i]

atof(s) ==
    LET signed == Len(s) >= 1 /\ s[1] \in {"-", "+"}
        sgn    == IF signed /\ s[1] = "-" THEN -1 ELSE 1
        whole  == ScanDigits(s, IF signed THEN 2 ELSE 1, 0, 0)
        point  == whole.i <= Len(s) /\ s[whole.i] = "."
        frac   == IF point THEN ScanDigits(s, whole.i + 1, 0, 0)
                  ELSE [v |-> 0, k |-> 0, i |-> whole.i]
    IN  IF whole.k + frac.k = 0 THEN Int2D(0)
        ELSE Num(sgn * (whole.v * Pow10(frac.k) + frac.v), Pow10(frac.k))

(***************************************************************************)
(* The program's constants                                                 *)
(***************************************************************************)
PARAM_MASS == 0

PARAM_VELOCITY == 1

PARAM_ENERGY == 2

OPT_VERBOSE == 0

OPT_SI == 1

OPT_PRECISE == 2

OPT_TKOF == 3

OPT_K == 4

TOTAL_OPTIONS == 5

GRAVITY_IMPERIAL_APPROX == Num(32163, 1000)

GRAVITY_IMPERIAL == Num(321739, 10000)

optString == <<"V", "h", "E", "H", "S", "q", "s", "i", "m", "v", "e", "p", "t",
               "c", "C", "K", "k", ":">>

(***************************************************************************)
(* The formulas, each with the K of the call                               *)
(***************************************************************************)
get_energy(mass, velocity, si, k) ==
    IF si = 1
    THEN Div(Mul(Div(mass, Int2D(2)), Mul(velocity, velocity)), k)
    ELSE Div(Mul(mass, Mul(velocity, velocity)), k)

\* get_mass() with the Si doubling of the energy forgotten
get_mass_NoDoubling(velocity, energy, si, k) ==
    IF si = 1
    THEN Mul(Div(energy, Mul(velocity, velocity)), k)
    ELSE Mul(Div(energy, Mul(velocity, velocity)), k)

get_mass(velocity, energy, si, k) ==
    IF si = 1
    THEN Mul(Div(Mul(energy, Int2D(2)), Mul(velocity, velocity)), k)
    ELSE Mul(Div(energy, Mul(velocity, velocity)), k)

get_velocity(mass, energy, si, k) ==
    IF si = 1
    THEN Sqrt(Mul(Div(Mul(energy, Int2D(2)), mass), k))
    ELSE Sqrt(Mul(Div(energy, mass), k))

\* the knockout number of tkof()
KnockoutNumber(mass, velocity, diameter, si) ==
    IF si = 1
    THEN Div(Mul(Mul(mass, velocity), diameter), Int2D(3500))
    ELSE Div(Mul(Mul(mass, velocity), diameter), Int2D(7000))

\* ResolveK() with the Si override taken whatever the constant option
ResolveK_SiAlways(optK, si, k) ==
    IF si = 1 THEN Int2D(1000)
    ELSE IF optK = -1 THEN Int2D(450240)
    ELSE IF optK = 1 THEN Mul(Mul(Int2D(2), GRAVITY_IMPERIAL_APPROX), Int2D(7000))
    ELSE IF optK = 2 THEN Mul(Mul(Int2D(2), GRAVITY_IMPERIAL), Int2D(7000))
    ELSE k

\* the constant result() sets before the formula: k is the K left by the options
ResolveK(optK, si, k) ==
    LET byMode == IF optK = -1 THEN Int2D(450240)
                  ELSE IF optK = 1 THEN Mul(Mul(Int2D(2), GRAVITY_IMPERIAL_APPROX), Int2D(7000))
                  ELSE IF optK = 2 THEN Mul(Mul(Int2D(2), GRAVITY_IMPERIAL), Int2D(7000))
                  ELSE k
    IN  IF si = 1 /\ optK # 0 THEN Int2D(1000) ELSE byMode

(***************************************************************************)
(* Output: one item for each printf() call, its format and the texts of    *)
(* its conversions                                                         *)
(***************************************************************************)
Printf(fmt, args) == [fmt |-> fmt, args |-> args]

Puts(fmt) == Printf(fmt, <<>>)

\* the text of print_usage()
UsageLine == Puts("Usage:  muzz [OPTION] MASS VELOCITY [DIAMETER]\n")

ViewHelpLine == Puts("\nTo view help, run with -h argument.\n")

\* the text of print_help()
HelpText ==
    << UsageLine,
       Puts("\nThe program is used primarily to calculate the muzzle energy "),
       Puts("of projectiles.\n\n"),
       Puts("Imperial gravity accleration constants (K = 2 * GAC * 7000) :\n"),
       Puts("GAC-1 (industry):  32.163\t"),
       Puts("GAC-2 (standard):  32.1739\n"),
       Puts("\nOptions\n"),
       Puts("  -h\t\tPrint this help text\n"),
       Puts("  -H\t\tPrint additional information on units used, etc.\n"),
       Puts("  -E\t\tPrint example usage\n"),
       Puts("  -V\t\tPrint version and author info\n"),
       Puts("  -S or q\tSilent (quiet) mode; print only the resultant number\n"),
       Puts("  -s\t\tUse Si (metric) units of measure - grams, m/s, joules\n"),
       Puts("  -i\t\tUse Imperial units - grains, ft/s, lbf (default)\n"),
       Puts("  -m\t\tCalculate for mass (num1 = velocity, num2 = energy)\n"),
       Puts("  -v\t\tCalculate for velocity (num1 = mass, num2 = energy)\n"),
       Puts("  -e\t\tCalculate for energy (num1 = mass, num2 = velocity) "),
       Puts("(default)\n"),
       Puts("  -K\t\tUse industry standard imperial constant (450,240) "),
       Puts(" (default)\n"),
       Puts("  -k [num]\tCustom user constant\n"),
       Puts("  -c\t\tCalculate constant using 'industry' GAC-1\n"),
       Puts("  -C\t\tCalculate constant using standard GAC-2\n"),
       Puts("  -p\t\tBe precise (do not round any numbers)\n  "),
       Puts("-t\t\tUse Taylor Knockout Formula (give mass, velocity, diameter)"),
       Puts("\n") >>

\* the text of print_examples()
ExamplesText ==
    << Puts("Examples:\n\n"),
       Puts("muzz 230 900\n"),
       Puts("  Returns muzzle energy of a 230 grain bullet @ 900 ft/s\n"),
       Puts("\nmuzz -s 15 270\n"),
       Puts("  Using Si units of measure, returns joules (15grams @ 270 m/s)\n"),
       Puts("\nmuzz -qp 230 900\n"),
       Puts("  Same, but only the number and with nothing rounded\n"),
       Puts("\nmuzz -mq 900 414\n"),
       Puts("  Given the velocity and muzzle energy, it will return only the "),
       Puts("mass\n  of the projectile.\n"),
       Puts("\nmuzz -t 230 860 .45\n"),
       Puts("  Prints result using Taylor Knockout Formula, with the params"),
       Puts(" being\n  the mass (grains), velocity (ft/s) and diameter\n"),
       Puts("\nmuzz -ts 15 255 11.6\n"),
       Puts("  Same, but using Si units (grams, meters/second, mm)\n") >>

\* the text of print_additional_help()
AdditionalHelpText ==
    << Puts("All units of measure are Imperial by default.  U-S-A!  U-S-A!\n\n"),
       Puts("Weight:\n"),
       Puts("  Si:\t\tGrams (g)\n"),
       Puts("  Imperial:\tGrains (gr) (7000 per pound)\n\n"),
       Puts("Velocity:\n"),
       Puts("  Si:\t\tMeters per second (m/s)\n"),
       Puts("  Imperial:\tFeet per second (ft/s)\n\n"),
       Puts("Diameter:\n"),
       Puts("  Si:\t\tMillimeters (mm)\n"),
       Puts("  Imperial:\tInch caliber (fractions of inch) (ex.: .45)\n\n"),
       Puts("Energy:\n"),
       Puts("  Si:\t\tJoules (J)\n"),
       Puts("  Imperial:\tFoot-pounds (lbf)\n\n"),
       Puts("\nTo calculate the standard muzzle energy of a projectile:\n\n"),
       Puts("  Si:\t\t( 2 * mass * (velocity*velocity)) / K\n"),
       Puts("  Imperial:\t( mass * (velocity*velocity)) / K\n\n"),
       Puts("  Default values of K are 450240 (Imperial) or 1000 (Si).\n"),
       Puts("  To use different numbers to calculate K, use the '-c' or '-C' "),
       Puts("options:\n"),
       Puts("    -c:\t\tK = 2 * 32.163 * 7000\n"),
       Puts("    -C:\t\tK = 2 * 32.1739 * 7000\n\n"),
       Puts("  You can also use the '-k' option to use a custom constant.\n\n"),
       Puts("The Taylor Knockout Formula, if used, will return a number that's"),
       Puts(" roughly the\n"),
       Puts("same regardless of whether or not the user chooses Si or "),
       Puts("Imperial units\n"),
       Puts("of measure.  The formula is as follows:\n\n"),
       Puts("  Si:\t\t( mass * velocity * diameter ) / 3500\n"),
       Puts("  Imperial:\t( mass * velocity * diameter ) / 7000\n\n") >>

\* the text of print_version()
VersionText ==
    << Puts("muzz.c, version 1.01\n"),
       Puts("James Hendrie <hendrie.james@gmail.com>\n") >>


\* what getopt() writes to stderr while opterr is 1
GetoptInvalid(c) == Printf("muzz: invalid option -- '%c'\n", <<c>>)

GetoptNoArgument(c) == Printf("muzz: option requires an argument -- '%c'\n", <<c>>)

(***************************************************************************)
(* The argument vectors of the model                                       *)
(***************************************************************************)
\* is c an option character of optString, and does it take an argument
IsOptChar(c) == c # ":" /\ \E i \in 1..Len(optString) : optString[i] = c

TakesArgument(c) ==
    \E i \in 1..(Len(optString) - 1) : optString[i] = c /\ optString[i + 1] = ":"

\* a token getopt() reads as options: "-" and more, but not "--"
IsOptionToken(tok) == Len(tok) > 1 /\ tok[1] = "-" /\ tok # <<"-", "-">>

DashDash == <<"-", "-">>

\* numbers and a text that is none
ValueTokens == {<<"2">>, <<"3">>, <<"a", "b", "c">>}

\* each option alone, an unknown option, and clusters: options in one token, and
\* -k with its argument in its token
OptionTokens ==
    {<<"-", optString[i]>> : i \in {j \in 1..Len(optString) : optString[j] # ":"}}
    \cup {<<"-", "x">>,
          <<"-", "q", "p">>, <<"-", "m", "q">>, <<"-", "t", "s">>, <<"-", "t", "q">>,
          <<"-", "k", "2">>}

\* the tokens of argv where getopt() looks for options
ArgvTokens == ValueTokens \cup OptionTokens \cup {DashDash}

\* the tokens that follow "--" or a -k that ends its token
OperandTokens == ValueTokens \cup {<<"0">>, <<".", "5">>, <<"-", "5">>, <<"-", "h">>}

InfoChars == {"h", "V", "H", "E"}

UnitChars == {"s", "i"}

TargetChars == {"m", "v", "e"}

ConstantChars == {"K", "k", "c", "C"}

\* the option group of an option character
GroupOf(c) ==
    IF c \in UnitChars THEN "unit"
    ELSE IF c \in TargetChars THEN "target"
    ELSE IF c \in ConstantChars THEN "constant"
    ELSE "other"

NoOpt == "-1"

NoToken == <<>>

(***************************************************************************)
(* State                                                                   *)
(***************************************************************************)
VARIABLES
    pc,          \* where main() stands
    argc,        \* main()'s argc
    optind,      \* getopt()'s index of the next argv element
    nextchar,    \* getopt(): the characters left of the option token being read
    restOnly,    \* getopt(): "--" was read, the rest of argv is non-options
    nonopts,     \* the non-options read so far, in order (argv[optind..] once permuted)
    opt,         \* the last return of getopt()
    optarg,      \* getopt()'s optarg
    options,     \* options[TOTAL_OPTIONS]
    valueWanted,
    K,           \* the global K
    mass, velocity, diameter, energy,
    result,      \* result of result(), ko of tkof(); 0 until one of them runs
    stdout, stderr,
    exitCode,    \* main()'s return value, -1 while it runs
    called,      \* the formula functions called, in order
    shown,       \* the first informational option token argv has shown, in any place
    lastFlag,    \* the last option getopt() returned of each group
    lastKArg     \* the argument of the last -k

vars == <<pc, argc, optind, nextchar, restOnly, nonopts, opt, optarg, options,
          valueWanted, K, mass, velocity, diameter, energy, result, stdout, stderr,
          exitCode, called, shown, lastFlag, lastKArg>>

getoptVars == <<optind, nextchar, restOnly, nonopts, opt, optarg>>

mainVars == <<options, valueWanted, K, mass, velocity, diameter, energy, result>>

ghostVars == <<called, shown, lastFlag, lastKArg>>

ioVars == <<stdout, stderr, exitCode>>

Unset == Int2D(-1)

Init ==
    /\ pc = "main"
    /\ argc \in 1..(MaxArgs + 1)
    /\ optind = 1
    /\ nextchar = <<>>
    /\ restOnly = FALSE
    /\ nonopts = <<>>
    /\ opt = "0"
    /\ optarg = NoToken
    /\ options = [i \in 0..(TOTAL_OPTIONS - 1) |-> 0]
    /\ valueWanted = PARAM_ENERGY
    /\ K = Int2D(0)
    /\ mass = Int2D(0) /\ velocity = Int2D(0) /\ diameter = Int2D(0) /\ energy = Int2D(0)
    /\ result = Int2D(0)
    /\ stdout = <<>> /\ stderr = <<>>
    /\ exitCode = -1
    /\ called = <<>>
    /\ shown = ""
    /\ lastFlag = [g \in {"unit", "target", "constant"} |-> ""]
    /\ lastKArg = NoToken

\* return( code ) of main()
Return(code) == pc' = "exit" /\ exitCode' = code

\* argv shows the token tok
Show(tok) ==
    shown' = IF shown = "" /\ Len(tok) = 2 /\ tok[1] = "-" /\ tok[2] \in InfoChars
             THEN tok[2] ELSE shown

(***************************************************************************)
(* main(): the argument count and the initial values                       *)
(***************************************************************************)
TooFewArguments ==
    /\ pc = "main"
    /\ argc < 2
    /\ stderr' = stderr \o <<Puts("ERROR:  Too few arguments\n"), UsageLine, ViewHelpLine>>
    /\ Return(1)
    /\ UNCHANGED <<argc, getoptVars, mainVars, stdout, ghostVars>>

InitMain ==
    /\ pc = "main"
    /\ argc >= 2
    /\ options' = [i \in 0..(TOTAL_OPTIONS - 1) |-> IF i = OPT_VERBOSE THEN 1 ELSE -1]
    /\ mass' = Unset /\ velocity' = Unset /\ diameter' = Unset /\ energy' = Unset
    /\ valueWanted' = PARAM_ENERGY
    /\ opt' = "0"
    /\ pc' = "getopt"
    /\ UNCHANGED <<argc, optind, nextchar, restOnly, nonopts, optarg, K, result,
                   ioVars, ghostVars>>

(***************************************************************************)
(* getopt( argc, argv, optString )                                         *)
(***************************************************************************)
\* where getopt() finds its next option character: in the token it is reading,
\* or in the next token of argv when that one holds options
OptionSources ==
    IF nextchar # <<>>
    THEN {[tok |-> NoToken, chars |-> nextchar, ind |-> optind]}
    ELSE IF ~restOnly /\ optind < argc
    THEN {[tok |-> t, chars |-> Tail(t), ind |-> optind + 1] :
              t \in {u \in ArgvTokens : IsOptionToken(u)}}
    ELSE {}

Flagged(c) ==
    lastFlag' = IF GroupOf(c) = "other" THEN lastFlag
                ELSE [lastFlag EXCEPT ![GroupOf(c)] = c]

\* a non-option is passed over; the permutation leaves it after the options
GetoptNonOption ==
    /\ pc = "getopt"
    /\ nextchar = <<>>
    /\ optind < argc
    /\ \E tok \in (IF restOnly THEN OperandTokens ELSE ArgvTokens) :
          /\ restOnly \/ (~IsOptionToken(tok) /\ tok # DashDash)
          /\ nonopts' = Append(nonopts, tok)
          /\ Show(tok)
    /\ optind' = optind + 1
    /\ UNCHANGED <<pc, argc, nextchar, restOnly, opt, optarg, mainVars, ioVars,
                   called, lastFlag, lastKArg>>

\* "--" ends the options
GetoptDashDash ==
    /\ pc = "getopt"
    /\ nextchar = <<>>
    /\ ~restOnly
    /\ optind < argc
    /\ restOnly' = TRUE
    /\ optind' = optind + 1
    /\ UNCHANGED <<pc, argc, nextchar, nonopts, opt, optarg, mainVars, ioVars, ghostVars>>

\* an option of optString that takes no argument
GetoptOption ==
    /\ pc = "getopt"
    /\ \E src \in OptionSources :
          LET c == Head(src.chars) IN
          /\ IsOptChar(c) /\ ~TakesArgument(c)
          /\ opt' = c
          /\ nextchar' = Tail(src.chars)
          /\ optind' = src.ind
          /\ Flagged(c)
          /\ Show(src.tok)
    /\ optarg' = NoToken
    /\ pc' = "switch"
    /\ UNCHANGED <<argc, restOnly, nonopts, mainVars, ioVars, called, lastKArg>>

\* an option that takes an argument: the rest of its token, or the next token
GetoptArgument ==
    /\ pc = "getopt"
    /\ \E src \in OptionSources :
          LET c    == Head(src.chars)
              rest == Tail(src.chars) IN
          /\ IsOptChar(c) /\ TakesArgument(c)
          /\ \/ /\ rest # <<>>
                /\ optarg' = rest
                /\ optind' = src.ind
                /\ shown' = shown
             \/ /\ rest = <<>>
                /\ src.ind < argc
                /\ \E a \in OperandTokens : optarg' = a /\ Show(a)
                /\ optind' = src.ind + 1
          /\ opt' = c
          /\ Flagged(c)
    /\ lastKArg' = optarg'
    /\ nextchar' = <<>>
    /\ pc' = "switch"
    /\ UNCHANGED <<argc, restOnly, nonopts, mainVars, ioVars, called>>

\* an option that takes an argument, at the end of argv
GetoptMissingArgument ==
    /\ pc = "getopt"
    /\ \E src \in OptionSources :
          LET c == Head(src.chars) IN
          /\ IsOptChar(c) /\ TakesArgument(c)
          /\ Tail(src.chars) = <<>>
          /\ src.ind = argc
          /\ optind' = src.ind
          /\ stderr' = Append(stderr, GetoptNoArgument(c))
    /\ opt' = "?"
    /\ optarg' = NoToken
    /\ nextchar' = <<>>
    /\ pc' = "switch"
    /\ UNCHANGED <<argc, restOnly, nonopts, mainVars, stdout, exitCode, ghostVars>>

\* a character that is no option of optString
GetoptUnknown ==
    /\ pc = "getopt"
    /\ \E src \in OptionSources :
          LET c == Head(src.chars) IN
          /\ ~IsOptChar(c)
          /\ nextchar' = Tail(src.chars)
          /\ optind' = src.ind
          /\ stderr' = Append(stderr, GetoptInvalid(c))
          /\ Show(src.tok)
    /\ opt' = "?"
    /\ optarg' = NoToken
    /\ pc' = "switch"
    /\ UNCHANGED <<argc, restOnly, nonopts, mainVars, stdout, exitCode, called,
                   lastFlag, lastKArg>>

\* argv is read: optind is left at the first of the permuted non-options
GetoptEnd ==
    /\ pc = "getopt"
    /\ nextchar = <<>>
    /\ optind = argc
    /\ opt' = NoOpt
    /\ optarg' = NoToken
    /\ optind' = argc - Len(nonopts)
    /\ pc' = "adjust"
    /\ UNCHANGED <<argc, nextchar, restOnly, nonopts, mainVars, ioVars, ghostVars>>

(***************************************************************************)
(* main(): the switch on the option                                        *)
(***************************************************************************)
\* Inform() with the return forgotten: the loop goes on
Inform_NoReturn(text) ==
    /\ pc = "switch"
    /\ stdout' = stdout \o text
    /\ pc' = "getopt"
    /\ UNCHANGED <<argc, getoptVars, mainVars, stderr, exitCode, ghostVars>>

\* an informational option: its text, and main() returns
Inform(text) ==
    /\ pc = "switch"
    /\ stdout' = stdout \o text
    /\ Return(0)
    /\ UNCHANGED <<argc, getoptVars, mainVars, stderr, ghostVars>>

CaseHelp ==
    /\ opt = "h"
    /\ Inform(HelpText)

CaseVersion ==
    /\ opt = "V"
    /\ Inform(VersionText)

CaseAdditionalHelp ==
    /\ opt = "H"
    /\ Inform(AdditionalHelpText)

CaseExamples ==
    /\ opt = "E"
    /\ Inform(ExamplesText)

\* options[ which ] = value, and the loop calls getopt() again
SetOption(which, value) ==
    /\ pc = "switch"
    /\ options' = [options EXCEPT ![which] = value]
    /\ pc' = "getopt"
    /\ UNCHANGED <<argc, getoptVars, valueWanted, K, mass, velocity, diameter, energy,
                   result, ioVars, ghostVars>>

\* valueWanted = param
SetWanted(param) ==
    /\ pc = "switch"
    /\ valueWanted' = param
    /\ pc' = "getopt"
    /\ UNCHANGED <<argc, getoptVars, options, K, mass, velocity, diameter, energy,
                   result, ioVars, ghostVars>>

CaseSilent ==
    /\ opt \in {"S", "q"}
    /\ SetOption(OPT_VERBOSE, -1)

CaseSi ==
    /\ opt = "s"
    /\ SetOption(OPT_SI, 1)

CaseImperial ==
    /\ opt = "i"
    /\ SetOption(OPT_SI, -1)

CaseMass ==
    /\ opt = "m"
    /\ SetWanted(PARAM_MASS)

CaseVelocity ==
    /\ opt = "v"
    /\ SetWanted(PARAM_VELOCITY)

CaseEnergy ==
    /\ opt = "e"
    /\ SetWanted(PARAM_ENERGY)

CaseApproximate ==
    /\ opt = "c"
    /\ SetOption(OPT_K, 1)

CaseStandard ==
    /\ opt = "C"
    /\ SetOption(OPT_K, 2)

CaseCustom ==
    /\ pc = "switch"
    /\ opt = "k"
    /\ options' = [options EXCEPT ![OPT_K] = 0]
    /\ K' = atof(optarg)
    /\ pc' = "getopt"
    /\ UNCHANGED <<argc, getoptVars, valueWanted, mass, velocity, diameter, energy,
                   result, ioVars, ghostVars>>

\* CaseIndustry() with the assignment forgotten
CaseIndustry_Kept ==
    /\ opt = "K"
    /\ SetOption(OPT_K, options[OPT_K])

CaseIndustry ==
    /\ opt = "K"
    /\ SetOption(OPT_K, -1)

CasePrecise ==
    /\ opt = "p"
    /\ SetOption(OPT_PRECISE, 1)

CaseTkof ==
    /\ opt = "t"
    /\ SetOption(OPT_TKOF, 1)

\* '?' has no case
CaseNone ==
    /\ pc = "switch"
    /\ opt = "?"
    /\ pc' = "getopt"
    /\ UNCHANGED <<argc, getoptVars, mainVars, ioVars, ghostVars>>

(***************************************************************************)
(* main(): the parameters                                                  *)
(***************************************************************************)
\* argv += ( optind - 1 ); argc -= ( optind - 1 ): argv[i] is now the i-th non-option
AdjustArgs ==
    /\ pc = "adjust"
    /\ argc' = argc - (optind - 1)
    /\ pc' = "count"
    /\ UNCHANGED <<getoptVars, mainVars, ioVars, ghostVars>>

\* Argv() after argv += optind: one token too far, and no token at argv[ argc ]
Argv_OneTooFar(i) == IF i < Len(nonopts) THEN nonopts[i + 1] ELSE NoToken

\* argv[ i ] once argv is adjusted
Argv(i) == nonopts[i]

\* ParametersRequired() without the usage line
ParametersRequired_NoUsage ==
    /\ pc = "count"
    /\ ~(argc > 1)
    /\ stderr' = stderr \o <<Puts("ERROR:  Parameters required\n"), ViewHelpLine>>
    /\ Return(1)
    /\ UNCHANGED <<argc, getoptVars, mainVars, stdout, ghostVars>>

ParametersRequired ==
    /\ pc = "count"
    /\ ~(argc > 1)
    /\ stderr' = stderr \o <<Puts("ERROR:  Parameters required\n"), UsageLine, ViewHelpLine>>
    /\ Return(1)
    /\ UNCHANGED <<argc, getoptVars, mainVars, stdout, ghostVars>>

\* NeedMoreThanOne() returning 0
NeedMoreThanOne_Zero ==
    /\ pc = "count"
    /\ argc > 1
    /\ argc = 2
    /\ stderr' = stderr \o <<Puts("ERROR:  Need more than one parameter\n"), UsageLine,
                            ViewHelpLine>>
    /\ Return(0)
    /\ UNCHANGED <<argc, getoptVars, mainVars, stdout, ghostVars>>

NeedMoreThanOne ==
    /\ pc = "count"
    /\ argc > 1
    /\ argc = 2
    /\ stderr' = stderr \o <<Puts("ERROR:  Need more than one parameter\n"), UsageLine,
                            ViewHelpLine>>
    /\ Return(1)
    /\ UNCHANGED <<argc, getoptVars, mainVars, stdout, ghostVars>>

\* TkofTooFew() with the return forgotten: tkof() is called with what is set
TkofTooFew_NoReturn ==
    /\ pc = "count"
    /\ argc > 1 /\ argc # 2
    /\ options[OPT_TKOF] = 1
    /\ argc <= 3
    /\ stderr' = stderr \o <<Puts("ERROR:  The Taylor Knockout Formula requires "),
                            Puts("three paramters:\n"),
                            Puts("Mass, Velocity and Diameter of projectile\n"),
                            UsageLine, ViewHelpLine>>
    /\ pc' = "formula"
    /\ UNCHANGED <<argc, getoptVars, mainVars, stdout, exitCode, ghostVars>>

TkofTooFew ==
    /\ pc = "count"
    /\ argc > 1 /\ argc # 2
    /\ options[OPT_TKOF] = 1
    /\ argc <= 3
    /\ stderr' = stderr \o <<Puts("ERROR:  The Taylor Knockout Formula requires "),
                            Puts("three paramters:\n"),
                            Puts("Mass, Velocity and Diameter of projectile\n"),
                            UsageLine, ViewHelpLine>>
    /\ Return(1)
    /\ UNCHANGED <<argc, getoptVars, mainVars, stdout, ghostVars>>

\* TkofParameters() with the velocity left as it was set
TkofParameters_NoVelocity ==
    /\ pc = "count"
    /\ argc > 1 /\ argc # 2
    /\ options[OPT_TKOF] = 1
    /\ ~(argc <= 3)
    /\ mass' = atof(Argv(1))
    /\ diameter' = atof(Argv(3))
    /\ pc' = "formula"
    /\ UNCHANGED <<argc, getoptVars, options, valueWanted, K, velocity, energy, result,
                   ioVars, ghostVars>>

TkofParameters ==
    /\ pc = "count"
    /\ argc > 1 /\ argc # 2
    /\ options[OPT_TKOF] = 1
    /\ ~(argc <= 3)
    /\ mass' = atof(Argv(1))
    /\ velocity' = atof(Argv(2))
    /\ diameter' = atof(Argv(3))
    /\ pc' = "formula"
    /\ UNCHANGED <<argc, getoptVars, options, valueWanted, K, energy, result, ioVars,
                   ghostVars>>

TwoParameters ==
    /\ pc = "count"
    /\ argc > 1 /\ argc # 2
    /\ options[OPT_TKOF] # 1
    /\ mass' = atof(Argv(1))
    /\ velocity' = atof(Argv(2))
    /\ pc' = "formula"
    /\ UNCHANGED <<argc, getoptVars, options, valueWanted, K, diameter, energy, result,
                   ioVars, ghostVars>>

\* StandardParameters() with the two parameters of PARAM_MASS in the other order
StandardParameters_Swapped ==
    /\ pc = "formula"
    /\ options[OPT_TKOF] = -1
    /\ mass' = IF valueWanted \in {PARAM_ENERGY, PARAM_VELOCITY} THEN atof(Argv(1)) ELSE mass
    /\ velocity' = IF valueWanted = PARAM_ENERGY THEN atof(Argv(2))
                   ELSE IF valueWanted = PARAM_MASS THEN atof(Argv(2))
                   ELSE velocity
    /\ energy' = IF valueWanted = PARAM_MASS THEN atof(Argv(1))
                 ELSE IF valueWanted = PARAM_VELOCITY THEN atof(Argv(2))
                 ELSE energy
    /\ pc' = "result"
    /\ UNCHANGED <<argc, getoptVars, options, valueWanted, K, diameter, result, ioVars,
                   ghostVars>>

\* the standard formula: the two parameters are read as valueWanted asks
StandardParameters ==
    /\ pc = "formula"
    /\ options[OPT_TKOF] = -1
    /\ mass' = IF valueWanted \in {PARAM_ENERGY, PARAM_VELOCITY} THEN atof(Argv(1)) ELSE mass
    /\ velocity' = IF valueWanted = PARAM_ENERGY THEN atof(Argv(2))
                   ELSE IF valueWanted = PARAM_MASS THEN atof(Argv(1))
                   ELSE velocity
    /\ energy' = IF valueWanted \in {PARAM_MASS, PARAM_VELOCITY} THEN atof(Argv(2))
                 ELSE energy
    /\ pc' = "result"
    /\ UNCHANGED <<argc, getoptVars, options, valueWanted, K, diameter, result, ioVars,
                   ghostVars>>

(***************************************************************************)
(* result()                                                                *)
(***************************************************************************)
\* the switch on options[ OPT_K ] and the Si override
SetConstant ==
    /\ pc = "result"
    /\ K' = ResolveK(options[OPT_K], options[OPT_SI], K)
    /\ result' = Unset
    /\ pc' = "solve"
    /\ UNCHANGED <<argc, getoptVars, options, valueWanted, mass, velocity, diameter,
                   energy, ioVars, ghostVars>>

\* verbose_result() with round() forgotten: "%.0lf" alone rounds
verbose_result_NoRound(m, v, e, opts) ==
    IF opts[OPT_VERBOSE] # 1 THEN <<>>
    ELSE IF opts[OPT_SI] = 1
    THEN IF opts[OPT_PRECISE] = 1
         THEN <<Printf("%.02lf g @ %.02lf m/s = %.02lf J\n",
                       <<Fmt(m, 2), Fmt(v, 2), Fmt(e, 2)>>)>>
         ELSE <<Printf("%.02lf g @ %.02lf m/s = %.0lf J\n",
                       <<Fmt(m, 2), Fmt(v, 2), Fmt(e, 0)>>)>>
    ELSE IF opts[OPT_PRECISE] = 1
         THEN <<Printf("%.02lf gr @ %.02lf ft/s = %.02lf lbf\n",
                       <<Fmt(m, 2), Fmt(v, 2), Fmt(e, 2)>>)>>
         ELSE <<Printf("%.0lf gr @ %.0lf ft/s = %.0lf lbf\n",
                       <<Fmt(m, 0), Fmt(v, 0), Fmt(e, 0)>>)>>

\* what verbose_result() prints
verbose_result(m, v, e, opts) ==
    IF opts[OPT_VERBOSE] # 1 THEN <<>>
    ELSE IF opts[OPT_SI] = 1
    THEN IF opts[OPT_PRECISE] = 1
         THEN <<Printf("%.02lf g @ %.02lf m/s = %.02lf J\n",
                       <<Fmt(m, 2), Fmt(v, 2), Fmt(e, 2)>>)>>
         ELSE <<Printf("%.02lf g @ %.02lf m/s = %.0lf J\n",
                       <<Fmt(m, 2), Fmt(v, 2), Fmt(Round(e), 0)>>)>>
    ELSE IF opts[OPT_PRECISE] = 1
         THEN <<Printf("%.02lf gr @ %.02lf ft/s = %.02lf lbf\n",
                       <<Fmt(m, 2), Fmt(v, 2), Fmt(e, 2)>>)>>
         ELSE <<Printf("%.0lf gr @ %.0lf ft/s = %.0lf lbf\n",
                       <<Fmt(Round(m), 0), Fmt(Round(v), 0), Fmt(Round(e), 0)>>)>>

\* the switch on param: one formula, and verbose_result() with its value
Solve ==
    /\ pc = "solve"
    /\ \/ /\ valueWanted = PARAM_ENERGY
          /\ result' = get_energy(mass, velocity, options[OPT_SI], K)
          /\ stdout' = stdout \o verbose_result(mass, velocity, result', options)
          /\ called' = Append(called, "get_energy")
       \/ /\ valueWanted = PARAM_MASS
          /\ result' = get_mass(velocity, energy, options[OPT_SI], K)
          /\ stdout' = stdout \o verbose_result(result', velocity, energy, options)
          /\ called' = Append(called, "get_mass")
       \/ /\ valueWanted = PARAM_VELOCITY
          /\ result' = get_velocity(mass, energy, options[OPT_SI], K)
          /\ stdout' = stdout \o verbose_result(mass, result', energy, options)
          /\ called' = Append(called, "get_velocity")
    /\ pc' = "terse"
    /\ UNCHANGED <<argc, getoptVars, options, valueWanted, K, mass, velocity, diameter,
                   energy, stderr, exitCode, shown, lastFlag, lastKArg>>

\* terse_result() with two decimals whatever the precision
terse_result_TwoDecimals(r, opts) ==
    IF opts[OPT_VERBOSE] # 1 THEN <<Printf("%.02lf\n", <<Fmt(r, 2)>>)>> ELSE <<>>

\* what result() prints after the switch
terse_result(r, opts) ==
    IF opts[OPT_VERBOSE] # 1
    THEN IF opts[OPT_PRECISE] = 1
         THEN <<Printf("%.02lf\n", <<Fmt(r, 2)>>)>>
         ELSE <<Printf("%.0lf\n", <<Fmt(r, 0)>>)>>
    ELSE <<>>

\* the terse result; result() returns and main() returns 0
Terse ==
    /\ pc = "terse"
    /\ stdout' = stdout \o terse_result(result, options)
    /\ Return(0)
    /\ UNCHANGED <<argc, getoptVars, mainVars, stderr, ghostVars>>

(***************************************************************************)
(* tkof()                                                                  *)
(***************************************************************************)
\* what tkof() prints for the knockout number ko
tkof_output(m, v, d, ko, opts) ==
    IF opts[OPT_SI] = 1
    THEN IF opts[OPT_VERBOSE] = 1
         THEN <<Printf("%.02lf g @ %.02lf m/s (%.02lf mm diameter) = %.02lf TKOF\n",
                       <<Fmt(m, 2), Fmt(v, 2), Fmt(d, 2), Fmt(ko, 2)>>)>>
         ELSE <<Printf("%.02lf\n", <<Fmt(ko, 2)>>)>>
    ELSE IF opts[OPT_VERBOSE] = 1
         THEN IF opts[OPT_PRECISE] = 1
              THEN <<Printf("%.02lf gr @ %.02lf ft/s (%.03lf\" diameter) = %.02lf ",
                            <<Fmt(m, 2), Fmt(v, 2), Fmt(d, 3), Fmt(ko, 2)>>),
                     Puts("TKOF\n")>>
              ELSE <<Printf("%.0lf gr @ %.0lf ft/s (%.03lf\" diameter) = %.02lf ",
                            <<Fmt(Round(m), 0), Fmt(Round(v), 0), Fmt(d, 3), Fmt(ko, 2)>>),
                     Puts("TKOF\n")>>
         ELSE <<Printf("%.02lf\n", <<Fmt(ko, 2)>>)>>

\* tkof( mass, velocity, diameter, options ), and main() returns 0
Tkof ==
    /\ pc = "formula"
    /\ options[OPT_TKOF] # -1
    /\ result' = KnockoutNumber(mass, velocity, diameter, options[OPT_SI])
    /\ stdout' = stdout \o tkof_output(mass, velocity, diameter, result', options)
    /\ Return(0)
    /\ UNCHANGED <<argc, getoptVars, options, valueWanted, K, mass, velocity, diameter,
                   energy, stderr, ghostVars>>

(***************************************************************************)
(* The run                                                                 *)
(***************************************************************************)
Next ==
    \/ TooFewArguments
    \/ InitMain
    \/ GetoptNonOption
    \/ GetoptDashDash
    \/ GetoptOption
    \/ GetoptArgument
    \/ GetoptMissingArgument
    \/ GetoptUnknown
    \/ GetoptEnd
    \/ CaseHelp
    \/ CaseVersion
    \/ CaseAdditionalHelp
    \/ CaseExamples
    \/ CaseSilent
    \/ CaseSi
    \/ CaseImperial
    \/ CaseMass
    \/ CaseVelocity
    \/ CaseEnergy
    \/ CaseApproximate
    \/ CaseStandard
    \/ CaseCustom
    \/ CaseIndustry
    \/ CasePrecise
    \/ CaseTkof
    \/ CaseNone
    \/ AdjustArgs
    \/ ParametersRequired
    \/ NeedMoreThanOne
    \/ TkofTooFew
    \/ TkofParameters
    \/ TwoParameters
    \/ StandardParameters
    \/ SetConstant
    \/ Solve
    \/ Terse
    \/ Tkof

Spec == Init /\ [][Next]_vars

(***************************************************************************)
(* Properties                                                              *)
(***************************************************************************)
\* the formats of the printf() calls of an output
Formats(out) == [i \in 1..Len(out) |-> out[i].fmt]

\* an output holds the item
Holds(out, item) == \E i \in 1..Len(out) : out[i].fmt = item.fmt

InfoText(c) ==
    IF c = "h" THEN HelpText
    ELSE IF c = "V" THEN VersionText
    ELSE IF c = "H" THEN AdditionalHelpText
    ELSE ExamplesText

\* stderr holds nothing but what getopt() wrote
OnlyGetoptDiagnostics ==
    \A i \in 1..Len(stderr) :
        stderr[i].fmt \in {GetoptInvalid("x").fmt, GetoptNoArgument("x").fmt}

\* main() has returned after the option loop ended: no informational option was met
LoopEnded == pc = "exit" /\ opt = NoOpt

\* C1 as stated: once argv has shown an informational flag, in whatever place, the
\* run ends with only that flag's text on stdout, nothing on stderr, no formula
\* called and exit code 0.
C1_AnyPlace ==
    (pc = "exit" /\ shown # "") =>
        /\ exitCode = 0
        /\ Formats(stdout) = Formats(InfoText(shown))
        /\ stderr = <<>>
        /\ called = <<>>

\* C1, amended: when getopt() returns an informational option (the flag is not the
\* argument of a -k before it and does not follow "--"), main() returns at once with
\* exit code 0, stdout holds only the text of that flag, no formula was called, and
\* stderr holds nothing but getopt()'s diagnostics for the options before it.
C1_Informational ==
    /\ opt \in InfoChars => pc \in {"switch", "exit"}
    /\ (pc = "exit" /\ opt \in InfoChars) =>
          /\ exitCode = 0
          /\ Formats(stdout) = Formats(InfoText(opt))
          /\ called = <<>>
          /\ result = Int2D(0)
          /\ OnlyGetoptDiagnostics

\* help is printed after a unit flag, a custom constant and a positional value
C1_Witness ==
    /\ pc = "exit" /\ opt = "h" /\ exitCode = 0
    /\ nonopts # <<>>
    /\ lastFlag["unit"] # ""
    /\ lastKArg # NoToken

\* the K the flags ask for: the last constant flag and the last unit flag
FlagsK ==
    IF lastFlag["constant"] = "k" THEN atof(lastKArg)
    ELSE IF lastFlag["unit"] = "s" THEN Int2D(1000)
    ELSE IF lastFlag["constant"] = "c" THEN Num(450282, 1)
    ELSE IF lastFlag["constant"] = "C" THEN Num(4504346, 10)
    ELSE Int2D(450240)

\* C2: the K of a formula call is the user's value when the last constant flag is
\* -k, whatever the unit system; otherwise 1000 when metric; otherwise 450240 for
\* the default, 2*32.163*7000 for -c and 2*32.1739*7000 for -C.
C2_ConstantK ==
    (pc \in {"solve", "terse"} \/ called # <<>>) => K = FlagsK

\* a formula was called with a custom constant in metric units
C2_Witness ==
    /\ called # <<>>
    /\ lastFlag["constant"] = "k" /\ lastFlag["unit"] = "s"
    /\ K = atof(lastKArg) /\ K # Int2D(1000) /\ K # Int2D(0)

\* C3: in standard mode with two positional values or more, the first two are bound
\* as the last target flag asks (-e or none: mass, velocity; -m: velocity, energy;
\* -v: mass, energy), exactly one formula is called, for the target, and the verbose
\* line shows the two inputs and the computed value in mass, velocity, energy order.
C3_Binding ==
    (LoopEnded /\ options[OPT_TKOF] = -1 /\ Len(nonopts) >= 2) =>
        LET a  == atof(nonopts[1])
            b  == atof(nonopts[2])
            si == options[OPT_SI]
            t  == lastFlag["target"]
            line(m, v, e) ==
                options[OPT_VERBOSE] = 1 => stdout = verbose_result(m, v, e, options)
        IN  /\ Len(called) = 1
            /\ t \in {"", "e"} =>
                  /\ called[1] = "get_energy"
                  /\ mass = a /\ velocity = b
                  /\ result = get_energy(a, b, si, K)
                  /\ line(a, b, result)
            /\ t = "m" =>
                  /\ called[1] = "get_mass"
                  /\ velocity = a /\ energy = b
                  /\ result = get_mass(a, b, si, K)
                  /\ line(result, a, b)
            /\ t = "v" =>
                  /\ called[1] = "get_velocity"
                  /\ mass = a /\ energy = b
                  /\ result = get_velocity(a, b, si, K)
                  /\ line(a, result, b)

\* the mass was computed from a velocity and an energy that differ, verbosely
C3_Witness ==
    /\ LoopEnded /\ exitCode = 0
    /\ lastFlag["target"] = "m" /\ called = <<"get_mass">>
    /\ options[OPT_VERBOSE] = 1
    /\ velocity = Int2D(2) /\ energy = Int2D(3)
    /\ Len(stdout) = 1

ErrOneParameter == Puts("ERROR:  Need more than one parameter\n")

ErrParametersRequired == Puts("ERROR:  Parameters required\n")

ErrTooFewArguments == Puts("ERROR:  Too few arguments\n")

ErrTkofNames == Puts("Mass, Velocity and Diameter of projectile\n")

\* C4: a run with exactly one positional value and no informational option, in any
\* mode, ends with exit code 1 and the "more than one parameter" error on stderr,
\* with nothing computed and nothing on stdout.
C4_OneParameter ==
    (LoopEnded /\ Len(nonopts) = 1) =>
        /\ exitCode = 1
        /\ Holds(stderr, ErrOneParameter)
        /\ stdout = <<>>
        /\ called = <<>>
        /\ result = Int2D(0)

\* one positional value in knockout mode, in metric units
C4_Witness ==
    /\ LoopEnded /\ Len(nonopts) = 1
    /\ options[OPT_TKOF] = 1 /\ options[OPT_SI] = 1
    /\ exitCode = 1

\* C5 as stated: in knockout mode, fewer than three positional values give the
\* error that names mass, velocity and diameter and exit code 1 with no score;
\* three give the score and exit code 0.
C5_FewerThanThree ==
    (LoopEnded /\ options[OPT_TKOF] = 1) =>
        /\ Len(nonopts) < 3 =>
              /\ exitCode = 1
              /\ Holds(stderr, ErrTkofNames)
              /\ stdout = <<>>
        /\ Len(nonopts) = 3 => (exitCode = 0 /\ stdout # <<>>)

\* C5, amended: in knockout mode, fewer than three positional values give exit code
\* 1 and no score; the error that names mass, velocity and diameter is the one for
\* exactly two values, one value gives "Need more than one parameter" and none
\* gives "Parameters required"; three values give the score and exit code 0.
C5_Knockout ==
    (LoopEnded /\ options[OPT_TKOF] = 1) =>
        /\ Len(nonopts) < 3 =>
              /\ exitCode = 1
              /\ stdout = <<>>
              /\ result = Int2D(0)
              /\ Holds(stderr, ErrTkofNames) <=> Len(nonopts) = 2
              /\ Holds(stderr, ErrOneParameter) <=> Len(nonopts) = 1
              /\ Holds(stderr, ErrParametersRequired) <=> Len(nonopts) = 0
        /\ Len(nonopts) = 3 =>
              /\ exitCode = 0
              /\ stdout # <<>>
              /\ result = KnockoutNumber(atof(nonopts[1]), atof(nonopts[2]),
                                         atof(nonopts[3]), options[OPT_SI])

\* knockout mode with two positional values: the error that names the three
C5_Witness ==
    /\ LoopEnded /\ options[OPT_TKOF] = 1
    /\ Len(nonopts) = 2
    /\ exitCode = 1 /\ Holds(stderr, ErrTkofNames)

\* C6 as stated: a run with no positional value, with no argument at all or with
\* non-informational flags only, ends with the "parameters required" error and the
\* usage line on stderr and exit code 1.
C6_NoParameter ==
    (pc = "exit" /\ opt \notin InfoChars /\ nonopts = <<>>) =>
        /\ exitCode = 1
        /\ Holds(stderr, ErrParametersRequired)
        /\ Holds(stderr, UsageLine)

\* C6, amended: a run with flags but no positional value ends with the "Parameters
\* required" error, and a run with no argument at all with the "Too few arguments"
\* error; both print the usage line on stderr and end with exit code 1.
C6_NothingGiven ==
    (pc = "exit" /\ opt \notin InfoChars /\ nonopts = <<>>) =>
        /\ exitCode = 1
        /\ stdout = <<>>
        /\ Holds(stderr, UsageLine)
        /\ Holds(stderr, ErrParametersRequired) <=> opt = NoOpt
        /\ Holds(stderr, ErrTooFewArguments) <=> opt # NoOpt

\* flags of two groups and no positional value
C6_Witness ==
    /\ LoopEnded /\ nonopts = <<>>
    /\ lastFlag["unit"] # "" /\ lastFlag["target"] # ""
    /\ exitCode = 1 /\ Holds(stderr, ErrParametersRequired)

\* C7: after the flags, the unit system is the one of the last of -s, -i, the target
\* the one of the last of -m, -v, -e, and the constant source, with the custom K, the
\* one of the last of -K, -k NUM, -c, -C; a group with no flag keeps its default, and
\* flags of other groups change nothing of it.
C7_LastWins ==
    (pc \in {"getopt", "adjust", "count", "formula", "result", "solve", "terse"}
        \/ LoopEnded) =>
        /\ options[OPT_SI] = (IF lastFlag["unit"] = "s" THEN 1 ELSE -1)
        /\ valueWanted = (IF lastFlag["target"] = "m" THEN PARAM_MASS
                          ELSE IF lastFlag["target"] = "v" THEN PARAM_VELOCITY
                          ELSE PARAM_ENERGY)
        /\ options[OPT_K] = (IF lastFlag["constant"] = "k" THEN 0
                             ELSE IF lastFlag["constant"] = "c" THEN 1
                             ELSE IF lastFlag["constant"] = "C" THEN 2
                             ELSE -1)
        /\ (lastFlag["constant"] = "k" /\ called = <<>>) => K = atof(lastKArg)

\* -K after a -k NUM: the formula was called with the default constant
C7_Witness ==
    /\ LoopEnded /\ called # <<>>
    /\ lastFlag["constant"] = "K" /\ lastKArg # NoToken /\ atof(lastKArg) # Int2D(0)
    /\ options[OPT_K] = -1
    /\ K = Int2D(450240)

\* a text with no digit in it
NonNumeric(tok) == \A i \in 1..Len(tok) : ~IsDigit(tok[i])

\* the quantity the i-th positional value is bound to
Bound(i) ==
    IF options[OPT_TKOF] = 1 THEN <<mass, velocity, diameter>>[i]
    ELSE IF valueWanted = PARAM_ENERGY THEN <<mass, velocity>>[i]
    ELSE IF valueWanted = PARAM_MASS THEN <<velocity, energy>>[i]
    ELSE <<mass, energy>>[i]

\* the positional values the mode reads
Wanted == IF options[OPT_TKOF] = 1 THEN 3 ELSE 2

\* C8 as stated: a positional token that is no numeric text gives the quantity it is
\* bound to the value -1 of an unset quantity, and the run prints a result and ends
\* with exit code 0.
C8_Sentinel ==
    (LoopEnded /\ Len(nonopts) >= Wanted) =>
        /\ exitCode = 0
        /\ stdout # <<>>
        /\ \A i \in 1..Wanted : NonNumeric(nonopts[i]) => Bound(i) = Unset

\* C8, amended: a positional token that is no numeric text gives the quantity it is
\* bound to the value 0 (what atof() returns), not the -1 of an unset quantity; no
\* parse error is raised, and the run prints a result and ends with exit code 0.
C8_NonNumeric ==
    (LoopEnded /\ Len(nonopts) >= Wanted) =>
        /\ exitCode = 0
        /\ stdout # <<>>
        /\ OnlyGetoptDiagnostics
        /\ \A i \in 1..Wanted : NonNumeric(nonopts[i]) => Bound(i) = Int2D(0)

\* the mass is a text with no digit, the velocity a number: a result is printed
C8_Witness ==
    /\ LoopEnded /\ exitCode = 0
    /\ Len(nonopts) = 2
    /\ NonNumeric(nonopts[1]) /\ ~NonNumeric(nonopts[2])
    /\ mass = Int2D(0) /\ called = <<"get_energy">>
    /\ stdout # <<>>

\* C9: at every formula call K is strictly positive, and from the end of the
\* constant's resolution to the printed result K keeps its value.
C9_PositiveK ==
    [][/\ pc = "solve" => (IsFinite(K) /\ IsPositive(K))
       /\ pc \in {"solve", "terse"} => K' = K]_vars

\* the precision of the one conversion of a terse line
TersePrecision == stdout[1].args[1].prec

TerseLine ==
    /\ Len(stdout) = 1
    /\ Len(stdout[1].args) = 1
    /\ stdout[1].fmt \in {"%.0lf\n", "%.02lf\n"}

\* C10 as stated: in terse mode a successful run prints one line, the result alone,
\* with 0 decimals without -p and 2 decimals with -p, for the standard and for the
\* knockout formula.
C10_TersePrecision ==
    (LoopEnded /\ exitCode = 0 /\ options[OPT_VERBOSE] # 1) =>
        /\ TerseLine
        /\ TersePrecision = (IF options[OPT_PRECISE] = 1 THEN 2 ELSE 0)

\* C10, amended: in terse mode a successful run prints one line, the result alone;
\* the standard formula prints it with "%.0lf" (0 decimals) without -p and with
\* "%.02lf" (2 decimals) with -p, in both unit systems; the knockout formula prints
\* it with "%.02lf" (2 decimals) whatever the precision flag, in both unit systems.
C10_Terse ==
    (LoopEnded /\ exitCode = 0 /\ options[OPT_VERBOSE] # 1) =>
        /\ TerseLine
        /\ stdout[1].args[1] = Fmt(result, TersePrecision)
        /\ options[OPT_TKOF] = 1 => TersePrecision = 2
        /\ options[OPT_TKOF] # 1 =>
              TersePrecision = (IF options[OPT_PRECISE] = 1 THEN 2 ELSE 0)
        /\ stdout[1].fmt = (IF TersePrecision = 2 THEN "%.02lf\n" ELSE "%.0lf\n")

\* the knockout number, terse and without -p, is printed with two decimals
C10_Witness ==
    /\ LoopEnded /\ exitCode = 0
    /\ options[OPT_VERBOSE] # 1 /\ options[OPT_TKOF] = 1 /\ options[OPT_PRECISE] # 1
    /\ TerseLine /\ TersePrecision = 2
    /\ IsFinite(result) /\ IsPositive(result)

\* the text shows the finite x as the nearest integer, a half away from zero; a
\* value that is not finite is shown by its word
ShowsNearestInteger(text, x) ==
    /\ text.prec = 0
    /\ IF IsFinite(x)
       THEN /\ text.word = "" /\ text.fp = 0
            /\ 2 * text.ip * x.d <= 2 * Abs(x.n) + x.d
            /\ 2 * Abs(x.n) + x.d < 2 * (text.ip + 1) * x.d
            /\ text.ip # 0 => text.neg = (x.n < 0)
       ELSE text.word # ""

\* the text shows the finite x itself, with two decimals
ShowsTwoDecimals(text, x) ==
    /\ text.prec = 2
    /\ IF IsFinite(x)
       THEN /\ text.word = "" /\ text.fp \in 0..99
            /\ 2 * Abs(100 * Abs(x.n) - (100 * text.ip + text.fp) * x.d) <= x.d
            /\ text.neg = (x.n < 0)
       ELSE text.word # ""

\* the mass, velocity and energy of a run of the standard formula: two read, one computed
Quantities ==
    IF valueWanted = PARAM_ENERGY THEN <<mass, velocity, result>>
    ELSE IF valueWanted = PARAM_MASS THEN <<result, velocity, energy>>
    ELSE <<mass, result, energy>>

\* C11: the verbose line of the standard formula, without -p, shows mass, velocity
\* and energy each as the nearest integer (a half away from zero) in imperial units,
\* and in metric units the energy so and mass and velocity with 2 decimals; with -p
\* it shows all three unrounded with 2 decimals, in both unit systems.
C11_VerboseRounding ==
    (LoopEnded /\ exitCode = 0 /\ options[OPT_TKOF] # 1 /\ options[OPT_VERBOSE] = 1) =>
        /\ Len(stdout) = 1
        /\ Len(stdout[1].args) = 3
        /\ LET shows == stdout[1].args
               q     == Quantities
           IN  IF options[OPT_PRECISE] = 1
               THEN \A i \in 1..3 : ShowsTwoDecimals(shows[i], q[i])
               ELSE IF options[OPT_SI] = 1
               THEN /\ ShowsTwoDecimals(shows[1], q[1])
                    /\ ShowsTwoDecimals(shows[2], q[2])
                    /\ ShowsNearestInteger(shows[3], q[3])
               ELSE \A i \in 1..3 : ShowsNearestInteger(shows[i], q[i])

\* imperial and rounded: a mass of one half is shown as 1
C11_Witness ==
    /\ LoopEnded /\ exitCode = 0
    /\ options[OPT_TKOF] # 1 /\ options[OPT_VERBOSE] = 1
    /\ options[OPT_SI] # 1 /\ options[OPT_PRECISE] # 1
    /\ mass = Num(1, 2)
    /\ Len(stdout) = 1 /\ stdout[1].args[1].ip = 1

(***************************************************************************)
(* The formulas alone: get_energy() of a mass and a velocity, then         *)
(* get_mass() or get_velocity() of that energy, with one K and one unit    *)
(* system for both calls.                                                  *)
(***************************************************************************)
PositiveValues == {Num(n, d) : n \in 1..MaxValue, d \in 1..MaxValue}

\* the constants of result(), and custom ones
ConstantValues ==
    {ResolveK(o, -1, Int2D(0)) : o \in {-1, 1, 2}} \cup {Int2D(1000)} \cup PositiveValues

InitFormulas ==
    /\ pc = "formulas"
    /\ argc = 1
    /\ optind = 1
    /\ nextchar = <<>>
    /\ restOnly = FALSE
    /\ nonopts = <<>>
    /\ opt = NoOpt
    /\ optarg = NoToken
    /\ \E si \in {-1, 1} :
           options = [i \in 0..(TOTAL_OPTIONS - 1) |-> IF i = OPT_SI THEN si ELSE -1]
    /\ valueWanted = PARAM_ENERGY
    /\ K \in ConstantValues
    /\ mass \in PositiveValues
    /\ velocity \in PositiveValues
    /\ diameter = Unset /\ energy = Unset
    /\ result = Int2D(0)
    /\ stdout = <<>> /\ stderr = <<>>
    /\ exitCode = -1
    /\ called = <<>>
    /\ shown = ""
    /\ lastFlag = [g \in {"unit", "target", "constant"} |-> ""]
    /\ lastKArg = NoToken

\* energy = get_energy( mass, velocity, si )
CallGetEnergy ==
    /\ pc = "formulas"
    /\ energy' = get_energy(mass, velocity, options[OPT_SI], K)
    /\ called' = Append(called, "get_energy")
    /\ pc' = "energy"
    /\ UNCHANGED <<argc, getoptVars, options, valueWanted, K, mass, velocity, diameter,
                   result, ioVars, shown, lastFlag, lastKArg>>

\* get_mass( velocity, energy, si ) of that energy
CallGetMass ==
    /\ pc = "energy"
    /\ result' = get_mass(velocity, energy, options[OPT_SI], K)
    /\ called' = Append(called, "get_mass")
    /\ pc' = "back"
    /\ UNCHANGED <<argc, getoptVars, options, valueWanted, K, mass, velocity, diameter,
                   energy, ioVars, shown, lastFlag, lastKArg>>

\* get_velocity( mass, energy, si ) of that energy
CallGetVelocity ==
    /\ pc = "energy"
    /\ result' = get_velocity(mass, energy, options[OPT_SI], K)
    /\ called' = Append(called, "get_velocity")
    /\ pc' = "back"
    /\ UNCHANGED <<argc, getoptVars, options, valueWanted, K, mass, velocity, diameter,
                   energy, ioVars, shown, lastFlag, lastKArg>>

NextFormulas ==
    \/ CallGetEnergy
    \/ CallGetMass
    \/ CallGetVelocity

SpecFormulas == InitFormulas /\ [][NextFormulas]_vars

\* C12: for a positive mass, a positive velocity and one positive K, in imperial
\* and in metric units, get_mass() of the velocity and of get_energy()'s energy
\* gives the mass back, and get_velocity() of the mass and of that energy gives
\* the velocity back.
C12_RoundTrip ==
    (pc = "back" /\ IsPositive(mass) /\ IsPositive(velocity) /\ IsPositive(K)) =>
        /\ called[1] = "get_energy"
        /\ called[2] = "get_mass" => result = mass
        /\ called[2] = "get_velocity" => result = velocity

\* metric units: the half of the mass taken by get_energy() is given back by get_mass()
C12_Witness ==
    /\ pc = "back"
    /\ called = <<"get_energy", "get_mass">>
    /\ options[OPT_SI] = 1
    /\ K = Int2D(1000)
    /\ mass = Num(3, 2) /\ velocity = Num(2, 3)
    /\ energy = Num(1, 3000)
    /\ result = mass

(***************************************************************************)
(* The run from the end of the option loop: getopt() has returned -1, the  *)
(* options are set as the flags of argv ask, each flag a token of its own, *)
(* and argv[optind..] holds the positional values.                         *)
(***************************************************************************)
PositionalLists == UNION {[1..n -> ValueTokens] : n \in 0..MaxPositionals}

InitPositionals ==
    \E unit \in {"", "s"}, target \in {"", "m", "v"}, constant \in {"", "C", "k"},
       quiet \in BOOLEAN, precise \in BOOLEAN, knockout \in BOOLEAN,
       given \in PositionalLists :
        LET one(b) == IF b THEN 1 ELSE 0
            flags  == one(unit # "") + one(target # "") + one(constant # "")
                      + one(quiet) + one(precise) + one(knockout)
        IN  /\ pc = "adjust"
            /\ optind = 1 + flags
            /\ argc = 1 + flags + Len(given)
            /\ nextchar = <<>>
            /\ restOnly = FALSE
            /\ nonopts = given
            /\ opt = NoOpt
            /\ optarg = NoToken
            /\ options = [i \in 0..(TOTAL_OPTIONS - 1) |->
                             IF i = OPT_VERBOSE THEN (IF quiet THEN -1 ELSE 1)
                             ELSE IF i = OPT_SI THEN (IF unit = "s" THEN 1 ELSE -1)
                             ELSE IF i = OPT_PRECISE THEN (IF precise THEN 1 ELSE -1)
                             ELSE IF i = OPT_TKOF THEN (IF knockout THEN 1 ELSE -1)
                             ELSE IF constant = "C" THEN 2
                             ELSE IF constant = "k" THEN 0
                             ELSE -1]
            /\ valueWanted = (IF target = "m" THEN PARAM_MASS
                              ELSE IF target = "v" THEN PARAM_VELOCITY
                              ELSE PARAM_ENERGY)
            /\ K = (IF constant = "k" THEN atof(<<"2">>) ELSE Int2D(0))
            /\ mass = Unset /\ velocity = Unset /\ diameter = Unset /\ energy = Unset
            /\ result = Int2D(0)
            /\ stdout = <<>> /\ stderr = <<>>
            /\ exitCode = -1
            /\ called = <<>>
            /\ shown = ""
            /\ lastFlag = [g \in {"unit", "target", "constant"} |->
                              IF g = "unit" THEN unit
                              ELSE IF g = "target" THEN target ELSE constant]
            /\ lastKArg = (IF constant = "k" THEN <<"2">> ELSE NoToken)

NextPositionals ==
    \/ AdjustArgs
    \/ ParametersRequired
    \/ NeedMoreThanOne
    \/ TkofTooFew
    \/ TkofParameters
    \/ TwoParameters
    \/ StandardParameters
    \/ SetConstant
    \/ Solve
    \/ Terse
    \/ Tkof

SpecPositionals == InitPositionals /\ [][NextPositionals]_vars

\* what a run with the options and the K of this one prints for the positional
\* values of the list first, and for no other
OutputOf(first) ==
    LET a  == atof(first[1])
        b  == atof(first[2])
        si == options[OPT_SI]
    IN  IF options[OPT_TKOF] = 1
        THEN LET d == atof(first[3])
             IN  tkof_output(a, b, d, KnockoutNumber(a, b, d, si), options)
        ELSE IF valueWanted = PARAM_ENERGY
        THEN LET r == get_energy(a, b, si, K)
             IN  verbose_result(a, b, r, options) \o terse_result(r, options)
        ELSE IF valueWanted = PARAM_MASS
        THEN LET r == get_mass(a, b, si, K)
             IN  verbose_result(r, a, b, options) \o terse_result(r, options)
        ELSE LET r == get_velocity(a, b, si, K)
             IN  verbose_result(a, r, b, options) \o terse_result(r, options)

\* C13: positional values beyond the two of the standard formula, or the three of
\* the knockout formula, are ignored: the run prints what the first two (three)
\* alone give, whatever the further tokens are, writes no error and ends with
\* exit code 0.
C13_ExtraIgnored ==
    (LoopEnded /\ Len(nonopts) > Wanted) =>
        /\ exitCode = 0
        /\ OnlyGetoptDiagnostics
        /\ stdout = OutputOf(SubSeq(nonopts, 1, Wanted))
        /\ stdout # <<>>

\* the knockout formula with a fourth positional value that differs from the third
C13_Witness ==
    /\ LoopEnded /\ exitCode = 0
    /\ options[OPT_TKOF] = 1
    /\ Len(nonopts) = 4 /\ nonopts[4] # nonopts[3] /\ nonopts[3] # nonopts[2]
    /\ diameter = atof(nonopts[3]) /\ IsPositive(diameter)
    /\ IsPositive(result)
    /\ stderr = <<>>

====
